---- MODULE Spec2Model ----
(***************************************************************************)
(* The LTI 1.3 registration overlay store                                  *)
(* (Lti1p3RegistrationOverlayState.ts): the initializer that derives the   *)
(* first overlay snapshot from an internal LTI configuration, and the      *)
(* twelve mutator actions of the zustand store.                            *)
(*                                                                         *)
(* JavaScript objects and arrays are cells of a heap (a sequence; the      *)
(* address of a cell is its index), so that object identity, structural    *)
(* sharing and in-place edits are observable.  An optional value is a set  *)
(* with no element (undefined) or one element.  Strings are strings.       *)
(***************************************************************************)
EXTENDS Integers, Sequences, FiniteSets, TLC

\* Number of mutator actions of one editing session that the model follows.
MaxSteps == 3

---------------------------------------------------------------------------
\* Optional values: undefined is the empty set, a present value v is {v}.
undefined == {}

Some(v) == {v}

IsPresent(o) == o # {}

Get(o) == CHOOSE v \in o : TRUE

\* JavaScript's a ?? b on an optional a.
Coalesce(o, d) == IF IsPresent(o) THEN Get(o) ELSE d

\* The reference that stands for an absent (undefined) array.
Null == 0

---------------------------------------------------------------------------
\* Faulty variant: writes the separator after every element, the last included.
RECURSIVE join_trailingSeparator(_, _)
join_trailingSeparator(arr, sep) ==
  IF arr = <<>> THEN "" ELSE arr[1] \o sep \o join_trailingSeparator(Tail(arr), sep)

\* Array.prototype.join
RECURSIVE join(_, _)
join(arr, sep) ==
  IF arr = <<>> THEN ""
  ELSE IF Len(arr) = 1 THEN arr[1]
  ELSE arr[1] \o sep \o join(Tail(arr), sep)

\* Array.prototype.includes
includes(arr, x) == \E i \in 1..Len(arr) : arr[i] = x

\* Array.prototype.filter(e => e !== x)
filterNot(arr, x) == SelectSeq(arr, LAMBDA e : e # x)

\* Faulty variant: writes the newline between the entries, not after each.
RECURSIVE reduceCustomFields_separatesLines(_, _)
reduceCustomFields_separatesLines(entries, acc) ==
  IF entries = <<>> THEN acc
  ELSE reduceCustomFields_separatesLines(
         Tail(entries),
         acc \o (IF acc = "" THEN "" ELSE "\n") \o entries[1][1] \o "=" \o entries[1][2])

\* Object.entries(custom_fields).reduce((acc, [key, value]) => acc + `${key}=${value}\n`, '')
RECURSIVE reduceCustomFields(_, _)
reduceCustomFields(entries, acc) ==
  IF entries = <<>> THEN acc
  ELSE reduceCustomFields(Tail(entries), acc \o entries[1][1] \o "=" \o entries[1][2] \o "\n")

\* JSON.stringify of a flat object of string members (entries in insertion
\* order); JSON.stringify(undefined) is undefined.
RECURSIVE stringifyMembers(_)
stringifyMembers(entries) ==
  IF entries = <<>> THEN ""
  ELSE "\"" \o entries[1][1] \o "\":\"" \o entries[1][2] \o "\""
       \o (IF Len(entries) = 1 THEN "" ELSE ",")
       \o stringifyMembers(Tail(entries))

JSONstringify(o) ==
  IF IsPresent(o) THEN Some("{" \o stringifyMembers(Get(o)) \o "}") ELSE undefined

\* JavaScript truthiness of an optional string: undefined and '' are falsy.
Truthy(o) == IsPresent(o) /\ Get(o) # ""

---------------------------------------------------------------------------
\* Values the model draws inputs from.
LtiScopes == {"scope:lineitem", "scope:result", "scope:score"}

ToggleScopes == {"scope:lineitem", "scope:result"}

LtiPlacements == {"course_navigation", "account_navigation", "global_navigation"}

TogglePlacements == {"course_navigation", "account_navigation"}

LtiPrivacyLevels == {"public", "anonymous"}

JwkMethods == {"public_jwk_url", "public_jwk"}

SetterValues == {"edited"}

Sections ==
  {"launchSettings", "permissions", "data_sharing", "placements",
   "override_uris", "naming", "icons"}

LaunchSettingKeys ==
  {"redirectURIs", "targetLinkURI", "openIDConnectInitiationURL", "JwkMethod",
   "JwkURL", "Jwk", "domain", "customFields"}

\* A placement record of the internal configuration.
PlacementRecord(kind, messageType, url, text, default, iconUrl) ==
  [placement |-> kind, message_type |-> messageType, url |-> url, text |-> text,
   default |-> default, icon_url |-> iconUrl]

PlainPlacement(kind) ==
  PlacementRecord(kind, undefined, undefined, undefined, undefined, undefined)

DisabledPlacement(kind) ==
  PlacementRecord(kind, Some("LtiDeepLinkingRequest"), Some("https://tool.test/nav"),
                  Some("Navigation"), Some("disabled"), Some("https://tool.test/icon.png"))

\* An internal LTI configuration (the base document).
InternalConfig(redirectUris, jwkUrl, jwk, customFields, scopes, placements) ==
  [redirect_uris |-> redirectUris,
   target_link_uri |-> "https://tool.test/launch",
   oidc_initiation_url |-> "https://tool.test/oidc",
   public_jwk_url |-> jwkUrl,
   public_jwk |-> jwk,
   domain |-> Some("tool.test"),
   custom_fields |-> customFields,
   scopes |-> scopes,
   privacy_level |-> Some("public"),
   title |-> "Tool",
   placements |-> placements]

ScopeLists ==
  {undefined,
   Some(<<"scope:lineitem", "scope:score", "scope:result">>),
   Some(<<"scope:result", "scope:score", "scope:result">>)}

PlacementLists ==
  {<<>>,
   <<DisabledPlacement("course_navigation"), PlainPlacement("global_navigation"),
     PlainPlacement("account_navigation")>>,
   <<PlainPlacement("account_navigation"), PlainPlacement("course_navigation"),
     DisabledPlacement("account_navigation")>>}

\* Base documents of the editing sessions the store specification follows:
\* the documents without scopes carry a literal key and leave the redirect
\* URIs, the key URL and the custom fields out; the others carry a key URL
\* and no literal key.
StoreConfigs ==
  {InternalConfig(IF s = undefined THEN undefined
                  ELSE Some(<<"https://tool.test/a", "https://tool.test/b">>),
                  IF s = undefined THEN undefined ELSE Some("https://tool.test/jwks"),
                  IF s = undefined THEN Some(<<<<"kty", "RSA">>, <<"kid", "1">>>>) ELSE undefined,
                  IF s = undefined THEN undefined ELSE Some(<<<<"a", "1">>, <<"b", "2">>>>),
                  s, p) :
     s \in ScopeLists, p \in PlacementLists}

---------------------------------------------------------------------------
VARIABLES
  internalConfig,  \* the base document handed to createLti1p3RegistrationOverlayStore
  pc,              \* "new" before the store is created, "ready" after
  heap,            \* the objects and arrays allocated so far
  store,           \* address of the snapshot the store holds (state.state)
  trail,           \* addresses of the snapshots the store has held, oldest first
  ops,             \* the mutator actions applied: ops[i] led from trail[i] to trail[i+1]
  seen,            \* seen[i]: contents of snapshot trail[i] when the store held it
  page,            \* the SpeedGrader page: window globals, bootstrap position, effects
  form             \* the rubric form: component state, refs, save mutation

vars == <<internalConfig, pc, heap, store, trail, ops, seen, page, form>>

\* The values page and form have where no SpeedGrader page and no rubric form
\* is open, and the store variables where no editing session is.
NoPage == [pc |-> "none"]

NoForm == [pc |-> "none"]

NoStore ==
  /\ internalConfig = [placements |-> <<>>]
  /\ pc = "none"
  /\ heap = <<>>
  /\ store = 0
  /\ trail = <<>>
  /\ ops = <<>>
  /\ seen = <<>>

\* Address the next allocation gets.
NextAddr(h) == Len(h) + 1

\* A sequence or the empty array when the reference is undefined: (x ?? [])
ArrayOrEmpty(h, ref) == IF ref = Null THEN <<>> ELSE h[ref]

\* A method called on an undefined reference raises a TypeError:
\* updatedScopes.filter(...) with updatedScopes undefined.
callThrows(ref) == ref = Null

\* Object.entries(o) raises a TypeError when o is undefined.
entriesThrows(o) == ~IsPresent(o)

\* The contents of the snapshot at address st, followed through every reference.
Content(h, st) ==
  LET s == h[st] IN
  [launchSettings |-> h[s.launchSettings],
   permissions |->
     [scopes |-> IF h[s.permissions].scopes = Null THEN undefined
                 ELSE Some(h[h[s.permissions].scopes])],
   data_sharing |-> h[s.data_sharing],
   placements |->
     [placements |-> IF h[s.placements].placements = Null THEN undefined
                     ELSE Some(h[h[s.placements].placements]),
      courseNavigationDefaultDisabled |-> h[s.placements].courseNavigationDefaultDisabled],
   override_uris |-> h[s.override_uris],
   naming |-> h[s.naming],
   icons |-> h[s.icons]]

---------------------------------------------------------------------------
\* acc[key] = value on a JavaScript object used as a map.
Put(acc, key, value) ==
  [k \in (DOMAIN acc) \cup {key} |-> IF k = key THEN value ELSE acc[k]]

EmptyObject == [k \in {} |-> undefined]

\* internalConfig.placements.map(p => p.placement)
RECURSIVE mapPlacement(_)
mapPlacement(recs) ==
  IF recs = <<>> THEN <<>> ELSE <<recs[1].placement>> \o mapPlacement(Tail(recs))

\* internalConfig.placements.find(p => p.placement === kind): the first match,
\* undefined when there is none.
RECURSIVE find(_, _)
find(recs, kind) ==
  IF recs = <<>> THEN undefined
  ELSE IF recs[1].placement = kind THEN Some(recs[1])
  ELSE find(Tail(recs), kind)

\* Faulty variant: takes any default the record gives as "disabled".
courseNavigationDefault_anyDefault(recs) ==
  LET found == find(recs, "course_navigation") IN
  IsPresent(found) /\ IsPresent(Get(found).default)

\* find(...)?.default === 'disabled'
courseNavigationDefault(recs) ==
  LET found == find(recs, "course_navigation") IN
  IsPresent(found) /\ Get(found).default = Some("disabled")

\* Faulty variant: p.url || target_link_uri, so an empty URL falls back too.
RECURSIVE reduceOverrideUris_emptyUrlFallsBack(_, _, _)
reduceOverrideUris_emptyUrlFallsBack(recs, acc, cfg) ==
  IF recs = <<>> THEN acc
  ELSE reduceOverrideUris_emptyUrlFallsBack(
         Tail(recs),
         Put(acc, recs[1].placement,
             [message_type |-> Some(Coalesce(recs[1].message_type, "LtiResourceLinkRequest")),
              uri |-> Some(IF Truthy(recs[1].url) THEN Get(recs[1].url)
                           ELSE cfg.target_link_uri)]),
         cfg)

\* The reduce that builds override_uris.placements.
RECURSIVE reduceOverrideUris(_, _, _)
reduceOverrideUris(recs, acc, cfg) ==
  IF recs = <<>> THEN acc
  ELSE reduceOverrideUris(
         Tail(recs),
         Put(acc, recs[1].placement,
             [message_type |-> Some(Coalesce(recs[1].message_type, "LtiResourceLinkRequest")),
              uri |-> Some(Coalesce(recs[1].url, cfg.target_link_uri))]),
         cfg)

\* Faulty variant: does not overwrite a name already given to the placement.
RECURSIVE reduceNaming_keepsFirst(_, _, _)
reduceNaming_keepsFirst(recs, acc, cfg) ==
  IF recs = <<>> THEN acc
  ELSE reduceNaming_keepsFirst(
         Tail(recs),
         IF recs[1].placement \in DOMAIN acc THEN acc
         ELSE Put(acc, recs[1].placement, [name |-> Some(Coalesce(recs[1].text, cfg.title))]),
         cfg)

\* The reduce that builds naming.placements.
RECURSIVE reduceNaming(_, _, _)
reduceNaming(recs, acc, cfg) ==
  IF recs = <<>> THEN acc
  ELSE reduceNaming(
         Tail(recs),
         Put(acc, recs[1].placement, [name |-> Some(Coalesce(recs[1].text, cfg.title))]),
         cfg)

\* The reduce that builds icons.placements.
RECURSIVE reduceIcons(_, _)
reduceIcons(recs, acc) ==
  IF recs = <<>> THEN acc
  ELSE reduceIcons(Tail(recs), Put(acc, recs[1].placement, [icon_url |-> recs[1].icon_url]))

\* Faulty variant: takes a literal key, when the document has one, as the
\* sign that the key is distributed by value.
initialJwkMethod_prefersLiteral(cfg) ==
  IF Truthy(cfg.public_jwk_url) /\ ~IsPresent(cfg.public_jwk) THEN "public_jwk_url"
  ELSE "public_jwk"

\* launchSettings.JwkMethod of the initial snapshot.
initialJwkMethod(cfg) ==
  IF Truthy(cfg.public_jwk_url) THEN "public_jwk_url" ELSE "public_jwk"

\* launchSettings of the initial snapshot.
initialLaunchSettings(cfg) ==
  [redirectURIs |->
     IF IsPresent(cfg.redirect_uris) THEN Some(join(Get(cfg.redirect_uris), "\n"))
     ELSE undefined,
   targetLinkURI |-> Some(cfg.target_link_uri),
   openIDConnectInitiationURL |-> Some(cfg.oidc_initiation_url),
   JwkMethod |-> Some(initialJwkMethod(cfg)),
   JwkURL |-> cfg.public_jwk_url,
   Jwk |-> JSONstringify(cfg.public_jwk),
   domain |-> cfg.domain,
   customFields |->
     IF IsPresent(cfg.custom_fields) THEN Some(reduceCustomFields(Get(cfg.custom_fields), ""))
     ELSE undefined]

\* Whether building the launch settings raises: Object.entries is reached
\* only behind the test of custom_fields, and redirect_uris only through ?.
initialLaunchSettingsThrows(cfg) ==
  IF IsPresent(cfg.custom_fields) THEN entriesThrows(cfg.custom_fields) ELSE FALSE

\* initialOverlayStateFromInternalConfig: allocates the sections and the
\* snapshot on heap h.  scopesRef is the address of the configuration's own
\* scopes array (Null when it has none): the snapshot shares it.
initialOverlayStateFromInternalConfig(h, cfg, scopesRef) ==
  LET a == NextAddr(h)
      cells ==
        << initialLaunchSettings(cfg),                                   \* a
           [scopes |-> scopesRef],                                       \* a + 1
           [privacy_level |-> cfg.privacy_level],                        \* a + 2
           mapPlacement(cfg.placements),                                 \* a + 3
           [placements |-> a + 3,
            courseNavigationDefaultDisabled |->
              courseNavigationDefault(cfg.placements)],                  \* a + 4
           [placements |-> reduceOverrideUris(cfg.placements, EmptyObject, cfg)],  \* a + 5
           [nickname |-> Some(cfg.title),
            description |-> Some(""),
            notes |-> Some(""),
            placements |-> reduceNaming(cfg.placements, EmptyObject, cfg)],        \* a + 6
           [placements |-> reduceIcons(cfg.placements, EmptyObject)],    \* a + 7
           [launchSettings |-> a, permissions |-> a + 1, data_sharing |-> a + 2,
            placements |-> a + 4, override_uris |-> a + 5, naming |-> a + 6,
            icons |-> a + 7] >>                                          \* a + 8
  IN [heap |-> h \o cells, state |-> a + 8, threw |-> initialLaunchSettingsThrows(cfg)]

---------------------------------------------------------------------------
\* The mutators.  Each takes the heap and the address of the current
\* snapshot and returns the heap after its allocations with the address of
\* the snapshot it built.

\* Faulty variant: builds launchSettings from the one key, without spreading
\* the old section, so the other seven fields are lost.
updateLaunchSetting_withoutSpread(h, st, key, value) ==
  LET h1 == Append(h, [k \in LaunchSettingKeys |-> IF k = key THEN Some(value) ELSE undefined])
      h2 == Append(h1, [h[st] EXCEPT !.launchSettings = Len(h1)])
  IN [heap |-> h2, state |-> Len(h2), threw |-> FALSE]

\* updateLaunchSetting(key, value): {...state, launchSettings: {...state.launchSettings, [key]: value}}
updateLaunchSetting(h, st, key, value) ==
  LET h1 == Append(h, [h[h[st].launchSettings] EXCEPT ![key] = Some(value)])
      h2 == Append(h1, [h[st] EXCEPT !.launchSettings = Len(h1)])
  IN [heap |-> h2, state |-> Len(h2), threw |-> FALSE]

setRedirectURIs(h, st, redirectURIs) == updateLaunchSetting(h, st, "redirectURIs", redirectURIs)

setDefaultTargetLinkURI(h, st, targetLinkURI) ==
  updateLaunchSetting(h, st, "targetLinkURI", targetLinkURI)

setOIDCInitiationURI(h, st, oidcInitiationURI) ==
  updateLaunchSetting(h, st, "openIDConnectInitiationURL", oidcInitiationURI)

setJwkURL(h, st, jwkURL) == updateLaunchSetting(h, st, "JwkURL", jwkURL)

setJwk(h, st, jwk) == updateLaunchSetting(h, st, "Jwk", jwk)

\* Faulty variant: switching the method also clears the key of the other method.
setJwkMethod_clearsOtherKey(h, st, jwkMethod) ==
  LET other == IF jwkMethod = "public_jwk_url" THEN "Jwk" ELSE "JwkURL"
      h1 == Append(h, [h[h[st].launchSettings] EXCEPT
                         !["JwkMethod"] = Some(jwkMethod), ![other] = undefined])
      h2 == Append(h1, [h[st] EXCEPT !.launchSettings = Len(h1)])
  IN [heap |-> h2, state |-> Len(h2), threw |-> FALSE]

setJwkMethod(h, st, jwkMethod) == updateLaunchSetting(h, st, "JwkMethod", jwkMethod)

setDomain(h, st, domain) == updateLaunchSetting(h, st, "domain", domain)

setCustomFields(h, st, customFields) == updateLaunchSetting(h, st, "customFields", customFields)

\* Faulty variant: pushes onto (or splices) the existing array instead of
\* building a new one.
toggleScope_editsInPlace(h, st, scope) ==
  LET permissions == h[h[st].permissions]
      ref == permissions.scopes
      updatedScopes ==
        IF ref # Null /\ includes(h[ref], scope) THEN filterNot(h[ref], scope)
        ELSE ArrayOrEmpty(h, ref) \o <<scope>>
      h1 == IF ref = Null THEN Append(h, updatedScopes) ELSE [h EXCEPT ![ref] = updatedScopes]
      arr == IF ref = Null THEN Len(h1) ELSE ref
      h2 == Append(h1, [permissions EXCEPT !.scopes = arr])
      h3 == Append(h2, [h[st] EXCEPT !.permissions = Len(h2)])
  IN [heap |-> h3, state |-> Len(h3), threw |-> FALSE]

\* Faulty variant: appends without looking whether the scope is already there.
toggleScope_alwaysAppends(h, st, scope) ==
  LET permissions == h[h[st].permissions]
      h1 == Append(h, ArrayOrEmpty(h, permissions.scopes) \o <<scope>>)
      h2 == Append(h1, [permissions EXCEPT !.scopes = Len(h1)])
      h3 == Append(h2, [h[st] EXCEPT !.permissions = Len(h2)])
  IN [heap |-> h3, state |-> Len(h3), threw |-> FALSE]

\* Faulty variant: removes the first occurrence only (indexOf and splice on a copy).
toggleScope_removesFirstOnly(h, st, scope) ==
  LET permissions == h[h[st].permissions]
      ref == permissions.scopes
      first == CHOOSE i \in 1..Len(h[ref]) :
                 h[ref][i] = scope /\ \A j \in 1..(i - 1) : h[ref][j] # scope
      updatedScopes ==
        IF ref # Null /\ includes(h[ref], scope)
        THEN SubSeq(h[ref], 1, first - 1) \o SubSeq(h[ref], first + 1, Len(h[ref]))
        ELSE ArrayOrEmpty(h, ref) \o <<scope>>
      h1 == Append(h, updatedScopes)
      h2 == Append(h1, [permissions EXCEPT !.scopes = Len(h1)])
      h3 == Append(h2, [h[st] EXCEPT !.permissions = Len(h2)])
  IN [heap |-> h3, state |-> Len(h3), threw |-> FALSE]

\* Faulty variant: tests membership without the optional chain, so an absent
\* scope list raises (updatedScopes.includes instead of updatedScopes?.includes).
toggleScope_noOptionalChain(h, st, scope) ==
  LET permissions == h[h[st].permissions]
      ref == permissions.scopes
      found == includes(ArrayOrEmpty(h, ref), scope)
      updatedScopes ==
        IF found THEN filterNot(ArrayOrEmpty(h, ref), scope)
        ELSE ArrayOrEmpty(h, ref) \o <<scope>>
      h1 == Append(h, updatedScopes)
      h2 == Append(h1, [permissions EXCEPT !.scopes = Len(h1)])
      h3 == Append(h2, [h[st] EXCEPT !.permissions = Len(h2)])
  IN [heap |-> h3, state |-> Len(h3), threw |-> callThrows(ref)]

toggleScope(h, st, scope) ==
  LET permissions == h[h[st].permissions]
      ref == permissions.scopes
      found == ref # Null /\ includes(h[ref], scope)
      updatedScopes ==
        IF found THEN filterNot(h[ref], scope)
        ELSE ArrayOrEmpty(h, ref) \o <<scope>>
      h1 == Append(h, updatedScopes)
      h2 == Append(h1, [permissions EXCEPT !.scopes = Len(h1)])
      h3 == Append(h2, [h[st] EXCEPT !.permissions = Len(h2)])
  IN [heap |-> h3, state |-> Len(h3),
      threw |-> IF found THEN callThrows(ref) ELSE FALSE]

\* Faulty variant: spreads the permissions section into a new object as well.
setPrivacyLevel_alsoCopiesPermissions(h, st, privacyLevel) ==
  LET h1 == Append(h, [h[h[st].data_sharing] EXCEPT !.privacy_level = Some(privacyLevel)])
      h2 == Append(h1, h[h[st].permissions])
      h3 == Append(h2, [h[st] EXCEPT !.data_sharing = Len(h1), !.permissions = Len(h2)])
  IN [heap |-> h3, state |-> Len(h3), threw |-> FALSE]

setPrivacyLevel(h, st, privacyLevel) ==
  LET h1 == Append(h, [h[h[st].data_sharing] EXCEPT !.privacy_level = Some(privacyLevel)])
      h2 == Append(h1, [h[st] EXCEPT !.data_sharing = Len(h1)])
  IN [heap |-> h2, state |-> Len(h2), threw |-> FALSE]

\* Faulty variant: sets the flag instead of flipping it.
toggleCourseNavigationDefaultDisabled_setsTrue(h, st) ==
  LET placements == h[h[st].placements]
      h1 == Append(h, [placements EXCEPT !.courseNavigationDefaultDisabled = TRUE])
      h2 == Append(h1, [h[st] EXCEPT !.placements = Len(h1)])
  IN [heap |-> h2, state |-> Len(h2), threw |-> FALSE]

\* Faulty variant: builds the placements section from the flag alone, without
\* spreading the old section, so the list is lost.
toggleCourseNavigationDefaultDisabled_dropsList(h, st) ==
  LET placements == h[h[st].placements]
      h1 == Append(h, [placements |-> Null,
                       courseNavigationDefaultDisabled |->
                         ~placements.courseNavigationDefaultDisabled])
      h2 == Append(h1, [h[st] EXCEPT !.placements = Len(h1)])
  IN [heap |-> h2, state |-> Len(h2), threw |-> FALSE]

toggleCourseNavigationDefaultDisabled(h, st) ==
  LET placements == h[h[st].placements]
      h1 == Append(h, [placements EXCEPT
                         !.courseNavigationDefaultDisabled =
                           ~placements.courseNavigationDefaultDisabled])
      h2 == Append(h1, [h[st] EXCEPT !.placements = Len(h1)])
  IN [heap |-> h2, state |-> Len(h2), threw |-> FALSE]

\* Faulty variant: builds the placements section without spreading the old
\* one, so the course-navigation flag is lost (and reads as false).
togglePlacement_dropsFlag(h, st, placement) ==
  LET placements == h[h[st].placements]
      ref == placements.placements
      updatedPlacements ==
        IF ref # Null /\ includes(h[ref], placement) THEN filterNot(h[ref], placement)
        ELSE ArrayOrEmpty(h, ref) \o <<placement>>
      h1 == Append(h, updatedPlacements)
      h2 == Append(h1, [placements |-> Len(h1), courseNavigationDefaultDisabled |-> FALSE])
      h3 == Append(h2, [h[st] EXCEPT !.placements = Len(h2)])
  IN [heap |-> h3, state |-> Len(h3), threw |-> FALSE]

\* Faulty variant: appends without looking whether the placement is already there.
togglePlacement_alwaysAppends(h, st, placement) ==
  LET placements == h[h[st].placements]
      h1 == Append(h, ArrayOrEmpty(h, placements.placements) \o <<placement>>)
      h2 == Append(h1, [placements EXCEPT !.placements = Len(h1)])
      h3 == Append(h2, [h[st] EXCEPT !.placements = Len(h2)])
  IN [heap |-> h3, state |-> Len(h3), threw |-> FALSE]

\* Faulty variant: puts an added placement first.
togglePlacement_prepends(h, st, placement) ==
  LET placements == h[h[st].placements]
      ref == placements.placements
      updatedPlacements ==
        IF ref # Null /\ includes(h[ref], placement) THEN filterNot(h[ref], placement)
        ELSE <<placement>> \o ArrayOrEmpty(h, ref)
      h1 == Append(h, updatedPlacements)
      h2 == Append(h1, [placements EXCEPT !.placements = Len(h1)])
      h3 == Append(h2, [h[st] EXCEPT !.placements = Len(h2)])
  IN [heap |-> h3, state |-> Len(h3), threw |-> FALSE]

\* Faulty variant: a placement taken out of the list also loses its icon entry.
togglePlacement_dropsIcon(h, st, placement) ==
  LET placements == h[h[st].placements]
      ref == placements.placements
      found == ref # Null /\ includes(h[ref], placement)
      updatedPlacements ==
        IF found THEN filterNot(h[ref], placement)
        ELSE ArrayOrEmpty(h, ref) \o <<placement>>
      icons == h[h[st].icons].placements
      h1 == Append(h, updatedPlacements)
      h2 == Append(h1, [placements EXCEPT !.placements = Len(h1)])
      h3 == Append(h2, [placements |-> [k \in (DOMAIN icons) \ {placement} |-> icons[k]]])
      h4 == Append(h3, [h[st] EXCEPT !.placements = Len(h2),
                                     !.icons = IF found THEN Len(h3) ELSE @])
  IN [heap |-> h4, state |-> Len(h4), threw |-> FALSE]

togglePlacement(h, st, placement) ==
  LET placements == h[h[st].placements]
      ref == placements.placements
      found == ref # Null /\ includes(h[ref], placement)
      updatedPlacements ==
        IF found THEN filterNot(h[ref], placement)
        ELSE ArrayOrEmpty(h, ref) \o <<placement>>
      h1 == Append(h, updatedPlacements)
      h2 == Append(h1, [placements EXCEPT !.placements = Len(h1)])
      h3 == Append(h2, [h[st] EXCEPT !.placements = Len(h2)])
  IN [heap |-> h3, state |-> Len(h3),
      threw |-> IF found THEN callThrows(ref) ELSE FALSE]

\* The toggle actions by name, as the store dispatches them.
applyToggle(h, st, op) ==
  IF op.name = "toggleScope" THEN toggleScope(h, st, op.arg)
  ELSE IF op.name = "togglePlacement" THEN togglePlacement(h, st, op.arg)
  ELSE toggleCourseNavigationDefaultDisabled(h, st)

---------------------------------------------------------------------------
\* The store.

\* The heap before the store is created holds the configuration's own scopes
\* array, when it has one.
ConfigHeap(cfg) == IF IsPresent(cfg.scopes) THEN <<Get(cfg.scopes)>> ELSE <<>>

ConfigScopesRef(cfg) == IF IsPresent(cfg.scopes) THEN 1 ELSE Null

NewSession(cfg) ==
  /\ internalConfig = cfg
  /\ pc = "new"
  /\ heap = ConfigHeap(cfg)
  /\ store = Null
  /\ trail = <<>>
  /\ ops = <<>>
  /\ seen = <<>>
  /\ page = NoPage
  /\ form = NoForm

Init == \E cfg \in StoreConfigs : NewSession(cfg)

\* createLti1p3RegistrationOverlayStore(internalConfig)
createLti1p3RegistrationOverlayStore ==
  /\ pc = "new"
  /\ LET r == initialOverlayStateFromInternalConfig(
                heap, internalConfig, ConfigScopesRef(internalConfig))
     IN IF r.threw
        THEN /\ pc' = "error"
             /\ UNCHANGED <<heap, store, trail, seen>>
        ELSE /\ pc' = "ready"
             /\ heap' = r.heap
             /\ store' = r.state
             /\ trail' = <<r.state>>
             /\ seen' = <<Content(r.heap, r.state)>>
  /\ UNCHANGED <<internalConfig, ops, page, form>>

\* set(updateState(f)): the store holds the snapshot f built; an error f
\* raises leaves the store as it was and reaches the caller.
set(r, name, arg) ==
  /\ pc = "ready"
  /\ Len(ops) < MaxSteps
  /\ UNCHANGED <<page, form>>
  /\ IF r.threw
     THEN /\ pc' = "error"
          /\ UNCHANGED <<internalConfig, heap, store, trail, ops, seen>>
     ELSE /\ heap' = r.heap
          /\ store' = r.state
          /\ trail' = Append(trail, r.state)
          /\ ops' = Append(ops, [name |-> name, arg |-> arg])
          /\ seen' = Append(seen, Content(r.heap, r.state))
          /\ UNCHANGED <<internalConfig, pc>>

SetRedirectURIs ==
  \E v \in SetterValues : set(setRedirectURIs(heap, store, v), "setRedirectURIs", v)

SetDefaultTargetLinkURI ==
  \E v \in SetterValues :
    set(setDefaultTargetLinkURI(heap, store, v), "setDefaultTargetLinkURI", v)

SetOIDCInitiationURI ==
  \E v \in SetterValues : set(setOIDCInitiationURI(heap, store, v), "setOIDCInitiationURI", v)

SetJwkURL == \E v \in SetterValues : set(setJwkURL(heap, store, v), "setJwkURL", v)

SetJwk == \E v \in SetterValues : set(setJwk(heap, store, v), "setJwk", v)

SetJwkMethod == \E m \in JwkMethods : set(setJwkMethod(heap, store, m), "setJwkMethod", m)

SetDomain == \E v \in SetterValues : set(setDomain(heap, store, v), "setDomain", v)

SetCustomFields ==
  \E v \in SetterValues : set(setCustomFields(heap, store, v), "setCustomFields", v)

ToggleScope == \E scope \in ToggleScopes : set(toggleScope(heap, store, scope), "toggleScope", scope)

SetPrivacyLevel ==
  \E level \in LtiPrivacyLevels : set(setPrivacyLevel(heap, store, level), "setPrivacyLevel", level)

ToggleCourseNavigationDefaultDisabled ==
  set(toggleCourseNavigationDefaultDisabled(heap, store),
      "toggleCourseNavigationDefaultDisabled", "")

TogglePlacement ==
  \E placement \in TogglePlacements :
    set(togglePlacement(heap, store, placement), "togglePlacement", placement)

Next ==
  \/ createLti1p3RegistrationOverlayStore
  \/ SetRedirectURIs
  \/ SetDefaultTargetLinkURI
  \/ SetOIDCInitiationURI
  \/ SetJwkURL
  \/ SetJwk
  \/ SetJwkMethod
  \/ SetDomain
  \/ SetCustomFields
  \/ ToggleScope
  \/ SetPrivacyLevel
  \/ ToggleCourseNavigationDefaultDisabled
  \/ TogglePlacement

Spec == Init /\ [][Next]_vars

\* Base documents the initializer specification draws from.
InitPlacementLists ==
  PlacementLists \cup
  {<<PlacementRecord("course_navigation", undefined, undefined, Some("Nav"),
                     Some("enabled"), undefined)>>,
   <<PlainPlacement("account_navigation"),
     PlacementRecord("course_navigation", Some("LtiDeepLinkingRequest"), Some(""),
                     undefined, Some("disabled"), undefined)>>,
   <<PlainPlacement("course_navigation"), DisabledPlacement("course_navigation")>>}

InitConfigs ==
  {InternalConfig(r, u, k, c, s, p) :
     r \in {undefined, Some(<<>>), Some(<<"https://tool.test/a">>),
            Some(<<"https://tool.test/a", "https://tool.test/b">>),
            Some(<<"https://tool.test/c", "https://tool.test/a", "https://tool.test/b">>)},
     u \in {undefined, Some(""), Some("https://tool.test/jwks")},
     k \in {undefined, Some(<<<<"kty", "RSA">>, <<"kid", "1">>>>)},
     c \in {undefined, Some(<<>>), Some(<<<<"a", "1">>, <<"b", "2">>>>),
            Some(<<<<"b", "2">>, <<"a", "1">>>>)},
     s \in ScopeLists \cup {Some(<<>>)},
     p \in InitPlacementLists}

InitAnyConfig == \E cfg \in InitConfigs : NewSession(cfg)

\* The initializer alone, over the wider set of base documents.
SpecInit == InitAnyConfig /\ [][createLti1p3RegistrationOverlayStore]_vars

---------------------------------------------------------------------------
\* The SpeedGrader bootstrap: the callback handed to ready().  The page
\* template supplies both mount points.

\* JavaScript truthiness of an optional boolean.
TruthyFlag(o) == IsPresent(o) /\ Get(o)

\* window.REMOTES?.speedgrader
remoteSpeedgrader(remotes) ==
  IF IsPresent(remotes) THEN Get(remotes).speedgrader ELSE undefined

\* Faulty variant: either the flag or the remote URL is enough.
usePlatformSpeedGrader_eitherSuffices(w) ==
  TruthyFlag(w.PLATFORM_SERVICE_SPEEDGRADER_ENABLED) \/ Truthy(remoteSpeedgrader(w.REMOTES))

\* window.ENV.PLATFORM_SERVICE_SPEEDGRADER_ENABLED && window.REMOTES?.speedgrader
usePlatformSpeedGrader(w) ==
  TruthyFlag(w.PLATFORM_SERVICE_SPEEDGRADER_ENABLED) /\ Truthy(remoteSpeedgrader(w.REMOTES))

\* window.navigator.language || ENV.LOCALE || ENV.BIGEASY_LOCALE
lang(w) ==
  IF w.language # "" THEN Some(w.language)
  ELSE IF Truthy(w.LOCALE) THEN w.LOCALE
  ELSE w.BIGEASY_LOCALE

\* The context handed to module.render, as far as the page decides it.
renderContext(w) ==
  [assignmentId |-> w.assignment_id, studentId |-> w.student_id, lang |-> lang(w),
   emojisEnabled |-> TruthyFlag(w.EMOJIS_ENABLED)]

\* The window a page load finds: the ENV and REMOTES globals, the locale and
\* the query string.
Windows ==
  [PLATFORM_SERVICE_SPEEDGRADER_ENABLED : {undefined, Some(FALSE), Some(TRUE)},
   REMOTES : {undefined, Some([speedgrader |-> undefined]), Some([speedgrader |-> Some("")]),
              Some([speedgrader |-> Some("https://sg.test/remoteEntry.js")])},
   assignment_id : {undefined, Some("7")},
   student_id : {undefined, Some("42")},
   language : {"", "en"},
   LOCALE : {undefined, Some("fr")},
   BIGEASY_LOCALE : {Some("de")},
   EMOJIS_ENABLED : {undefined, Some(TRUE)}]

\* The page before the ready callback ran: nothing done, nothing failed.
PageLoad(w) ==
  [pc |-> "loading", window |-> w, did |-> <<>>, error |-> undefined, rendered |-> undefined]

\* Faulty variant: after reporting the failure, falls back to the legacy setup.
catchHandler_fallsBackToLegacy(did) ==
  did \o <<"console.error", "captureException", "spinner", "speedGrader.setup">>

\* .catch(error => ...): logs and reports the error, renders the error page.
catchHandler(did) ==
  did \o <<"console.error", "captureException", "GenericErrorPage">>

\* ready(() => { if ... else ... }): the platform branch starts the import,
\* the legacy branch runs to its end.
Ready ==
  /\ page.pc = "loading"
  /\ page' =
       IF usePlatformSpeedGrader(page.window)
       THEN [page EXCEPT !.pc = "importing", !.did = @ \o <<"import">>]
       ELSE [page EXCEPT !.pc = "done",
                         !.did = @ \o <<"touch_punch", "spinner", "speedGrader.setup">>]
  /\ UNCHANGED <<internalConfig, pc, heap, store, trail, ops, seen, form>>

\* import('speedgrader/appInjector') settles: the module arrives or the
\* import fails.
ImportSettles ==
  /\ page.pc = "importing"
  /\ \E ok \in BOOLEAN :
       page' = IF ok THEN [page EXCEPT !.pc = "imported"]
               ELSE [page EXCEPT !.pc = "rejected", !.error = Some("import")]
  /\ UNCHANGED <<internalConfig, pc, heap, store, trail, ops, seen, form>>

\* .then(module => module.render(mountPoint, {...})): render returns or throws.
ThenRender ==
  /\ page.pc = "imported"
  /\ \E ok \in BOOLEAN :
       page' = IF ok
               THEN [page EXCEPT !.pc = "done", !.did = @ \o <<"module.render">>,
                                 !.rendered = Some(renderContext(page.window))]
               ELSE [page EXCEPT !.pc = "rejected", !.did = @ \o <<"module.render">>,
                                 !.error = Some("render")]
  /\ UNCHANGED <<internalConfig, pc, heap, store, trail, ops, seen, form>>

Catch ==
  /\ page.pc = "rejected"
  /\ page' = [page EXCEPT !.pc = "done", !.did = catchHandler(@)]
  /\ UNCHANGED <<internalConfig, pc, heap, store, trail, ops, seen, form>>

InitPage == NoStore /\ form = NoForm /\ \E w \in Windows : page = PageLoad(w)

NextPage == Ready \/ ImportSettles \/ ThenRender \/ Catch

SpecPage == InitPage /\ [][NextPage]_vars

----------------------------------------------------------------------------
\* The rubric form (RubricForm).  A handler runs to its end, React applies the
\* state updates it queued in order and renders, and the effects of that
\* render run, before the next event is handled; within a handler rubricForm is
\* the value of the render the handler was created in.

MaxFormSteps == 4

MaxCriteria == 3

\* String.prototype.trim on a title given as its sequence of characters.
RECURSIVE trimStart(_)
trimStart(t) == IF t # <<>> /\ Head(t) = " " THEN trimStart(Tail(t)) ELSE t

RECURSIVE trimEnd(_)
trimEnd(t) ==
  IF t # <<>> /\ t[Len(t)] = " " THEN trimEnd(SubSeq(t, 1, Len(t) - 1)) ELSE t

trim(t) == trimEnd(trimStart(t))

\* Faulty variant: counts the scored criteria instead of adding their points.
RECURSIVE calcPointsPossible_countsCriteria(_)
calcPointsPossible_countsCriteria(criteria) ==
  IF criteria = <<>> THEN 0
  ELSE (IF criteria[1].ignoreForScoring THEN 0 ELSE 1)
         + calcPointsPossible_countsCriteria(Tail(criteria))

\* criteria.reduce((acc, c) => acc + (c.ignoreForScoring ? 0 : c.points), 0)
RECURSIVE calcPointsPossible(_)
calcPointsPossible(criteria) ==
  IF criteria = <<>> THEN 0
  ELSE (IF criteria[1].ignoreForScoring THEN 0 ELSE criteria[1].points)
         + calcPointsPossible(Tail(criteria))

\* Faulty variant: does not trim the title.
formValid_untrimmed(rubricForm) ==
  Len(rubricForm.title) > 0 /\ Len(rubricForm.criteria) > 0

\* rubricForm.title.trim().length > 0 && rubricForm.criteria.length > 0
formValid(rubricForm) ==
  Len(trim(rubricForm.title)) > 0 /\ Len(rubricForm.criteria) > 0

\* criteria.filter(c => c.id !== id)
RECURSIVE filterId(_, _)
filterId(criteria, id) ==
  IF criteria = <<>> THEN <<>>
  ELSE (IF criteria[1].id # id THEN <<criteria[1]>> ELSE <<>>) \o filterId(Tail(criteria), id)

\* criteria.findIndex(c => c.id === id): the first position, 0 when there is
\* none (positions count from 1 here, so 0 stands for the source's -1).
findIndex(criteria, id) ==
  IF \E i \in 1..Len(criteria) : criteria[i].id = id
  THEN CHOOSE i \in 1..Len(criteria) :
         criteria[i].id = id /\ \A j \in 1..(i - 1) : criteria[j].id # id
  ELSE 0

\* criteria.some(criterion => criterion.learningOutcomeId === learningOutcomeId)
hasDuplicateLearningOutcomeId(criteria, learningOutcomeId) ==
  \E i \in 1..Len(criteria) : criteria[i].learningOutcomeId = learningOutcomeId

\* reorder({list, startIndex, endIndex}): the element at startIndex is taken
\* out and put back at endIndex (positions from 1).
reorder(list, startIndex, endIndex) ==
  LET without == SubSeq(list, 1, startIndex - 1) \o SubSeq(list, startIndex + 1, Len(list))
  IN SubSeq(without, 1, endIndex - 1) \o <<list[startIndex]>>
       \o SubSeq(without, endIndex, Len(without))

\* Faulty variant: replaces the whole list by the saved criterion when the id
\* is new.
handleSaveCriterion_replacesList(criteria, updatedCriteria) ==
  LET criterionIndexToUpdate == findIndex(criteria, updatedCriteria.id) IN
  IF criterionIndexToUpdate = 0 THEN <<updatedCriteria>>
  ELSE [criteria EXCEPT ![criterionIndexToUpdate] = updatedCriteria]

\* handleSaveCriterion, the list it builds: push or replace at the index.
handleSaveCriterion(criteria, updatedCriteria) ==
  LET criterionIndexToUpdate == findIndex(criteria, updatedCriteria.id) IN
  IF criterionIndexToUpdate = 0 THEN Append(criteria, updatedCriteria)
  ELSE [criteria EXCEPT ![criterionIndexToUpdate] = updatedCriteria]

\* Faulty variant: adds the outcome without looking for its id in the list.
importOutcome_skipsCheck(criteria, newOutcomeCriteria) == Some(Append(criteria, newOutcomeCriteria))

\* The 'import' handler, the list it builds: undefined when the outcome is
\* already in the rubric and the handler returns early.
importOutcome(criteria, newOutcomeCriteria) ==
  IF hasDuplicateLearningOutcomeId(criteria, newOutcomeCriteria.learningOutcomeId)
  THEN undefined
  ELSE Some(Append(criteria, newOutcomeCriteria))

\* The rubricForm the mutation function started by mutate() may close over:
\* the one of the render the click handler belongs to, or, when the mutation
\* layer picks up the function of the render that follows the click's state
\* update before it calls it, the updated one.
mutationFnArguments(rendered, updated) == {rendered, updated}

\* Values the form model draws inputs from.
Titles == {<<>>, <<" ">>, <<"R", " ">>}

Points == {2, 3}

OutcomeIds == {"outcome-1", "outcome-2"}

\* A criterion, as far as the form looks at it.
Criterion(id, points, ignoreForScoring, learningOutcomeId) ==
  [id |-> id, points |-> points, ignoreForScoring |-> ignoreForScoring,
   learningOutcomeId |-> learningOutcomeId]

\* defaultRubricForm, and a rubric loaded into the form: a plain criterion
\* and an outcome criterion that is not used for scoring.
defaultRubricForm ==
  [title |-> <<>>, hasRubricAssociations |-> FALSE, criteria |-> <<>>, pointsPossible |-> 0,
   unassessed |-> TRUE, workflowState |-> "active"]

LoadedRubricForms ==
  {[title |-> <<"R">>, hasRubricAssociations |-> a,
    criteria |-> <<Criterion(101, 4, FALSE, undefined),
                   Criterion(102, 1, TRUE, Some("outcome-1"))>>,
    pointsPossible |-> 4, unassessed |-> u, workflowState |-> w] :
     a \in BOOLEAN, u \in BOOLEAN, w \in {"active", "draft"}}

\* The form when it opens, with the rubric it shows.
FormOpen(rubricForm, assignmentId) ==
  [pc |-> "open",
   assignmentId |-> assignmentId,
   rubricForm |-> rubricForm,
   criteriaRef |-> rubricForm.criteria,
   selectedCriterion |-> undefined,
   isCriterionModalOpen |-> FALSE,
   isOutcomeCriterionModalOpen |-> FALSE,
   outcomeDialog |-> FALSE,
   saveStatus |-> "idle",
   saved |-> <<>>,
   flashErrors |-> 0,
   now |-> 1,
   steps |-> 0,
   last |-> [name |-> "open"],
   before |-> [rubricForm |-> rubricForm, saveStatus |-> "idle", flashErrors |-> 0]]

\* setRubricForm(prevState => ({...prevState, [key]: value}))
setRubricFormField(prevState, key, value) == [prevState EXCEPT ![key] = value]

\* No modal and no outcome dialog covers the form.
FormUncovered ==
  /\ ~form.isCriterionModalOpen
  /\ ~form.isOutcomeCriterionModalOpen
  /\ ~form.outcomeDialog

\* An event handled: the handler's result next becomes the form; the render
\* that follows runs the effect that stores rubricForm.criteria in criteriaRef.
Handle(next, name, arg) ==
  /\ form.pc = "open"
  /\ form.steps < MaxFormSteps
  /\ form' = [next EXCEPT !.steps = form.steps + 1,
                          !.now = form.now + 1,
                          !.last = [name |-> name, arg |-> arg],
                          !.before = [rubricForm |-> form.rubricForm,
                                      saveStatus |-> form.saveStatus,
                                      flashErrors |-> form.flashErrors],
                          !.criteriaRef = next.rubricForm.criteria]
  /\ UNCHANGED <<internalConfig, pc, heap, store, trail, ops, seen, page>>

\* onChange of the title input
SetTitle ==
  /\ FormUncovered
  /\ \E title \in Titles :
       Handle([form EXCEPT !.rubricForm = setRubricFormField(@, "title", title)],
              "setTitle", title)

\* deleteCriterion(criterion), for a row of the list
DeleteCriterion ==
  /\ FormUncovered
  /\ \E i \in 1..Len(form.rubricForm.criteria) :
       LET criterion == form.rubricForm.criteria[i]
           criteria == filterId(form.rubricForm.criteria, criterion.id)
       IN Handle([form EXCEPT !.rubricForm =
                    setRubricFormField(
                      setRubricFormField(@, "pointsPossible", calcPointsPossible(criteria)),
                      "criteria", criteria)],
                 "deleteCriterion", criterion)

\* openCriterionModal(criterion), for a row of the list or for a new criterion
OpenCriterionModal ==
  /\ FormUncovered
  /\ \E criterion \in (IF form.rubricForm.unassessed THEN {undefined} ELSE {})
                        \cup {Some(form.rubricForm.criteria[i]) :
                                i \in 1..Len(form.rubricForm.criteria)} :
       LET outcome == IsPresent(criterion) /\ Truthy(Get(criterion).learningOutcomeId)
       IN Handle([form EXCEPT !.selectedCriterion = criterion,
                              !.isOutcomeCriterionModalOpen = IF outcome THEN TRUE ELSE @,
                              !.isCriterionModalOpen = IF outcome THEN @ ELSE TRUE],
                 "openCriterionModal", criterion)

\* duplicateCriterion(criterion), for a row of the list
DuplicateCriterion ==
  /\ FormUncovered
  /\ \E i \in 1..Len(form.rubricForm.criteria) :
       LET criterion == form.rubricForm.criteria[i]
           newCriterion == [criterion EXCEPT !.id = form.now, !.learningOutcomeId = undefined]
       IN Handle([form EXCEPT !.selectedCriterion = Some(newCriterion),
                              !.isCriterionModalOpen = TRUE],
                 "duplicateCriterion", criterion)

\* onSave of the criterion modal: handleSaveCriterion(updatedCriteria) with the
\* selected criterion as edited, or with a new criterion.
SaveCriterion ==
  /\ form.isCriterionModalOpen
  /\ \E points \in Points, ignoreForScoring \in BOOLEAN :
       LET updatedCriteria ==
             IF IsPresent(form.selectedCriterion)
             THEN [Get(form.selectedCriterion) EXCEPT
                     !.points = points, !.ignoreForScoring = ignoreForScoring]
             ELSE Criterion(form.now, points, ignoreForScoring, undefined)
           criteria == handleSaveCriterion(form.criteriaRef, updatedCriteria)
       IN /\ Len(criteria) <= MaxCriteria
          /\ Handle([form EXCEPT !.rubricForm =
                       setRubricFormField(
                         setRubricFormField(@, "pointsPossible", calcPointsPossible(criteria)),
                         "criteria", criteria),
                     !.isCriterionModalOpen = FALSE,
                     !.isOutcomeCriterionModalOpen = FALSE],
                    "handleSaveCriterion", updatedCriteria)

\* onDismiss of the criterion modal and of the outcome criterion modal
DismissModal ==
  /\ form.isCriterionModalOpen \/ form.isOutcomeCriterionModalOpen
  /\ Handle([form EXCEPT !.isCriterionModalOpen = FALSE,
                         !.isOutcomeCriterionModalOpen = FALSE],
            "onDismiss", "")

\* handleAddOutcome and the effect that shows the find dialog
HandleAddOutcome ==
  /\ FormUncovered
  /\ form.rubricForm.unassessed
  /\ Handle([form EXCEPT !.outcomeDialog = TRUE], "handleAddOutcome", "")

\* The dialog's 'import' event
ImportOutcome ==
  /\ form.outcomeDialog
  /\ \E outcomeId \in OutcomeIds, points \in Points, useForScoring \in BOOLEAN :
       LET newOutcomeCriteria == Criterion(form.now, points, ~useForScoring, Some(outcomeId))
           criteria == importOutcome(form.criteriaRef, newOutcomeCriteria)
       IN IF criteria = undefined
          THEN Handle([form EXCEPT !.flashErrors = @ + 1], "import", newOutcomeCriteria)
          ELSE /\ Len(Get(criteria)) <= MaxCriteria
               /\ Handle([form EXCEPT !.rubricForm =
                            setRubricFormField(
                              setRubricFormField(@, "pointsPossible",
                                                 calcPointsPossible(Get(criteria))),
                              "criteria", Get(criteria)),
                          !.outcomeDialog = FALSE],
                         "import", newOutcomeCriteria)

\* handleDragEnd(result): destination 0 stands for a drop outside the list.
HandleDragEnd ==
  /\ FormUncovered
  /\ \E source \in 1..Len(form.rubricForm.criteria),
        destination \in 0..Len(form.rubricForm.criteria) :
       Handle(IF destination = 0 THEN form
              ELSE [form EXCEPT !.rubricForm =
                      [form.rubricForm EXCEPT
                         !.criteria = reorder(form.rubricForm.criteria, source, destination)]],
              "handleDragEnd", <<source, destination>>)

\* disabled={saveLoading || !formValid()} on both save buttons
saveButtonDisabled == form.saveStatus = "loading" \/ ~formValid(form.rubricForm)

\* A click on a save button: the handler queues the workflowState update and
\* calls mutate(), which starts saveRubric.
ClickSaveButton(workflowState, name) ==
  /\ FormUncovered
  /\ LET updated == setRubricFormField(form.rubricForm, "workflowState", workflowState) IN
     \E rubric \in mutationFnArguments(form.rubricForm, updated) :
       Handle([form EXCEPT !.rubricForm = updated,
                           !.saveStatus = "loading",
                           !.saved = Append(@, rubric)],
              name, workflowState)

\* handleSaveAsDraft: the button is rendered for a rubric without associations
\* outside an assignment.
HandleSaveAsDraft ==
  /\ ~form.rubricForm.hasRubricAssociations
  /\ form.assignmentId = undefined
  /\ ~saveButtonDisabled
  /\ ClickSaveButton("draft", "handleSaveAsDraft")

\* handleSave
HandleSave ==
  /\ ~saveButtonDisabled
  /\ ClickSaveButton("active", "handleSave")

\* saveRubric settles: the mutation succeeds or fails.
SaveSettles ==
  /\ form.saveStatus = "loading"
  /\ \E ok \in BOOLEAN :
       Handle([form EXCEPT !.saveStatus = IF ok THEN "success" ELSE "error"],
              "saveSettles", ok)

InitForm ==
  /\ NoStore
  /\ page = NoPage
  /\ \E rubricForm \in {defaultRubricForm} \cup LoadedRubricForms,
        assignmentId \in {undefined, Some("7")} :
       form = FormOpen(rubricForm, assignmentId)

NextForm ==
  \/ SetTitle
  \/ DeleteCriterion
  \/ OpenCriterionModal
  \/ DuplicateCriterion
  \/ SaveCriterion
  \/ DismissModal
  \/ HandleAddOutcome
  \/ ImportOutcome
  \/ HandleDragEnd
  \/ HandleSaveAsDraft
  \/ HandleSave
  \/ SaveSettles

SpecForm == InitForm /\ [][NextForm]_vars

----------------------------------------------------------------------------
\* Vocabulary of the properties.

Range(seq) == {seq[i] : i \in 1..Len(seq)}

\* The elements of an optional list; an absent list has none.
Elems(optList) == IF IsPresent(optList) THEN Range(Get(optList)) ELSE {}

\* An optional list as a list: absent counts as empty.
ListOf(optList) == IF IsPresent(optList) THEN Get(optList) ELSE <<>>

NoDuplicates(seq) == \A i, j \in 1..Len(seq) : seq[i] = seq[j] => i = j

\* The top-level sections in which snapshots a and b hold different objects.
ReplacedSections(h, a, b) == {sec \in Sections : h[a][sec] # h[b][sec]}

LaunchSetters ==
  {"setRedirectURIs", "setDefaultTargetLinkURI", "setOIDCInitiationURI", "setJwkMethod",
   "setJwkURL", "setJwk", "setDomain", "setCustomFields"}

Toggles == {"toggleScope", "togglePlacement", "toggleCourseNavigationDefaultDisabled"}

\* The section a mutator is documented to update.
SectionOf(name) ==
  IF name \in LaunchSetters THEN "launchSettings"
  ELSE IF name = "toggleScope" THEN "permissions"
  ELSE IF name = "setPrivacyLevel" THEN "data_sharing"
  ELSE "placements"

\* Number of mutator actions applied so far.
Steps == Len(ops)

---------------------------------------------------------------------------
\* C1: every mutator action replaces exactly one top-level section of the
\* snapshot, the one it is documented to update, and every other section of
\* the new snapshot is the same object as in the prior snapshot.
C1_ExactlyOneSectionReplaced ==
  \A i \in 1..Steps :
    ReplacedSections(heap, trail[i], trail[i + 1]) = {SectionOf(ops[i].name)}

\* A session in which setPrivacyLevel, a toggle and a launch setter have acted.
C1_Witness ==
  /\ Steps = 3
  /\ ops[1].name = "setPrivacyLevel"
  /\ ops[2].name = "toggleScope"
  /\ ops[3].name = "setJwkMethod"
  /\ heap[trail[2]].permissions = heap[trail[1]].permissions
  /\ heap[trail[2]].data_sharing # heap[trail[1]].data_sharing

\* C2: a mutator action builds a new snapshot object and edits no earlier one:
\* every snapshot the store has held still has the contents it had when the
\* store held it (scopes and placements lists included), and the snapshot held
\* after an action is another object than the one held before it.
C2_SnapshotsNeverEdited ==
  /\ \A i \in 1..Len(trail) : Content(heap, trail[i]) = seen[i]
  /\ \A i \in 1..Steps : trail[i + 1] # trail[i]
  /\ \A i, j \in 1..Len(trail) : trail[i] = trail[j] => i = j

\* Three actions later the first snapshot differs from the held one in its lists.
C2_Witness ==
  /\ Steps = 3
  /\ \E i \in 1..Steps : ops[i].name = "toggleScope"
  /\ \E i \in 1..Steps : ops[i].name = "togglePlacement"
  /\ seen[1].permissions.scopes # Content(heap, store).permissions.scopes
  /\ seen[1].placements.placements # Content(heap, store).placements.placements

\* The scopes and placements lists of a snapshot's contents.
ScopesOf(c) == c.permissions.scopes

PlacementsOf(c) == c.placements.placements

\* The base document repeats no scope and no placement kind.
ConfigRepeatsNothing(cfg) ==
  /\ NoDuplicates(ListOf(cfg.scopes))
  /\ NoDuplicates(mapPlacement(cfg.placements))

\* C3 as stated: from any base document, scopes and placements never hold a
\* duplicate entry.
C3_NoDuplicatesFromAnyConfig ==
  pc = "ready" =>
    /\ NoDuplicates(ListOf(ScopesOf(Content(heap, store))))
    /\ NoDuplicates(ListOf(PlacementsOf(Content(heap, store))))

\* C3 (amended): from a base document that repeats no scope and no placement
\* kind, permissions.scopes and placements.placements, when present, hold no
\* duplicate entry after any sequence of mutator actions.
C3_NoDuplicatesFromCleanConfig ==
  (pc = "ready" /\ ConfigRepeatsNothing(internalConfig)) =>
    /\ NoDuplicates(ListOf(ScopesOf(Content(heap, store))))
    /\ NoDuplicates(ListOf(PlacementsOf(Content(heap, store))))

\* Both lists have been toggled and still hold several entries.
C3_Witness ==
  /\ ConfigRepeatsNothing(internalConfig)
  /\ Steps = 3
  /\ \E i \in 1..Steps : ops[i].name = "toggleScope"
  /\ \E i \in 1..Steps : ops[i].name = "togglePlacement"
  /\ Len(ListOf(ScopesOf(Content(heap, store)))) >= 2
  /\ Len(ListOf(PlacementsOf(Content(heap, store)))) >= 2

\* Contents equal but for the order (and repetition) of the entries of the
\* scopes and placements lists, an absent list counting as empty.
SameUpToListOrder(c1, c2) ==
  /\ c1.launchSettings = c2.launchSettings
  /\ Elems(ScopesOf(c1)) = Elems(ScopesOf(c2))
  /\ c1.data_sharing = c2.data_sharing
  /\ Elems(PlacementsOf(c1)) = Elems(PlacementsOf(c2))
  /\ c1.placements.courseNavigationDefaultDisabled =
       c2.placements.courseNavigationDefaultDisabled
  /\ c1.override_uris = c2.override_uris
  /\ c1.naming = c2.naming
  /\ c1.icons = c2.icons

\* Positions i at which the same toggle was applied twice in a row (ops[i - 1], ops[i]).
DoubleToggles == {i \in 2..Steps : ops[i] = ops[i - 1] /\ ops[i].name \in Toggles}

\* The list a list toggle works on, in contents c.
ToggledList(c, op) == IF op.name = "toggleScope" THEN ScopesOf(c) ELSE PlacementsOf(c)

\* C4 as stated: the same toggle twice in a row leaves a snapshot equal in
\* content to the one before the first application.
C4_DoubleToggleRestoresContent ==
  \A i \in DoubleToggles : seen[i + 1] = seen[i - 1]

\* C4 (amended): the same toggle twice in a row leaves a snapshot equal in
\* content to the one before the first application except for the toggled
\* list, which holds the same entries as a set (an absent list counting as
\* empty); the content is restored exactly by a double
\* toggleCourseNavigationDefaultDisabled, and by a double list toggle of an
\* entry that a present list did not hold.
C4_DoubleToggleRestoresUpToOrder ==
  \A i \in DoubleToggles :
    /\ SameUpToListOrder(seen[i - 1], seen[i + 1])
    /\ ops[i].name = "toggleCourseNavigationDefaultDisabled" => seen[i + 1] = seen[i - 1]
    /\ ( /\ ops[i].name # "toggleCourseNavigationDefaultDisabled"
         /\ IsPresent(ToggledList(seen[i - 1], ops[i]))
         /\ ops[i].arg \notin Elems(ToggledList(seen[i - 1], ops[i])) )
       => seen[i + 1] = seen[i - 1]

\* A present scope toggled twice has moved to the end, and the flag toggled twice.
C4_Witness ==
  /\ Steps = 3
  /\ 3 \in DoubleToggles
  /\ ops[3].name = "toggleScope"
  /\ seen[4] # seen[2]
  /\ SameUpToListOrder(seen[2], seen[4])

\* C5: toggleScope(s) twice in a row leaves a scopes collection equal as a set
\* (order ignored) to the collection before the two calls.
C5_DoubleToggleScopeSameSet ==
  \A i \in DoubleToggles :
    ops[i].name = "toggleScope" => Elems(ScopesOf(seen[i + 1])) = Elems(ScopesOf(seen[i - 1]))

\* A scope absent at first is toggled in and out again, the set being non-empty.
C5_Witness ==
  /\ Steps >= 2
  /\ Steps \in DoubleToggles
  /\ ops[Steps].name = "toggleScope"
  /\ ops[Steps].arg \notin Elems(ScopesOf(seen[Steps - 1]))
  /\ ops[Steps].arg \in Elems(ScopesOf(seen[Steps]))
  /\ Elems(ScopesOf(seen[Steps + 1])) # {}

\* Positions i at which two toggles on different keys were applied in a row.
DisjointToggles ==
  {i \in 2..Steps : ops[i] # ops[i - 1] /\ ops[i].name \in Toggles /\ ops[i - 1].name \in Toggles}

\* The contents reached from snapshot trail[i - 1] by ops[i] first, ops[i - 1] second.
SwappedOrder(i) ==
  LET r1 == applyToggle(heap, trail[i - 1], ops[i])
      r2 == applyToggle(r1.heap, r1.state, ops[i - 1])
  IN Content(r2.heap, r2.state)

\* ops[i - 1] and ops[i] both add an entry to the same list.
BothAddToSameList(i) ==
  /\ ops[i].name = ops[i - 1].name
  /\ ops[i].name # "toggleCourseNavigationDefaultDisabled"
  /\ ops[i - 1].arg \notin Elems(ToggledList(seen[i - 1], ops[i]))
  /\ ops[i].arg \notin Elems(ToggledList(seen[i - 1], ops[i]))

\* C6 as stated: two toggles on different keys give the same snapshot contents
\* in either order.
C6_DisjointTogglesCommute ==
  \A i \in DisjointToggles : SwappedOrder(i) = seen[i + 1]

\* C6 (amended): two toggles on different keys give, in either order, snapshots
\* equal in content except for the order of the entries of the toggled list;
\* the contents are the same unless both toggles add an entry to the same list,
\* in which case the two added entries end the list in the order of the calls.
C6_DisjointTogglesCommuteUpToOrder ==
  \A i \in DisjointToggles :
    /\ SameUpToListOrder(SwappedOrder(i), seen[i + 1])
    /\ ~BothAddToSameList(i) => SwappedOrder(i) = seen[i + 1]
    /\ BothAddToSameList(i) =>
         /\ ListOf(ToggledList(seen[i + 1], ops[i])) =
              ListOf(ToggledList(seen[i - 1], ops[i])) \o <<ops[i - 1].arg, ops[i].arg>>
         /\ ListOf(ToggledList(SwappedOrder(i), ops[i])) =
              ListOf(ToggledList(seen[i - 1], ops[i])) \o <<ops[i].arg, ops[i - 1].arg>>

\* A removal and an addition on the same list, and toggles of different kinds,
\* have been applied in a row.
C6_Witness ==
  /\ Steps = 3
  /\ DisjointToggles = {2, 3}
  /\ ops[1].name = "toggleScope"
  /\ ops[2].name = "toggleScope"
  /\ ops[3].name = "togglePlacement"
  /\ ops[1].arg \in Elems(ScopesOf(seen[1]))
  /\ ops[2].arg \notin Elems(ScopesOf(seen[1]))

\* Positions of the actions with the given name.
Applied(name) == {i \in 1..Steps : ops[i].name = name}

\* C7: toggleScope(s) removes s when permissions.scopes holds it and appends it
\* otherwise; an absent list is treated as empty, the result being [s]; the
\* membership of no other scope changes.
C7_ToggleScopeRemovesOrAppends ==
  \A i \in Applied("toggleScope") :
    LET s == ops[i].arg
        before == ScopesOf(seen[i])
        after == ScopesOf(seen[i + 1])
    IN /\ IsPresent(after)
       /\ s \in Elems(before) => s \notin Elems(after)
       /\ s \notin Elems(before) => Get(after) = ListOf(before) \o <<s>>
       /\ ~IsPresent(before) => Get(after) = <<s>>
       /\ \A t \in LtiScopes \ {s} : t \in Elems(after) <=> t \in Elems(before)

\* A scope has been appended to an absent list, and a listed scope removed.
C7_Witness ==
  /\ Steps = 3
  /\ Applied("toggleScope") = {1, 2, 3}
  /\ ~IsPresent(ScopesOf(seen[1]))
  /\ ScopesOf(seen[2]) = Some(<<"scope:lineitem">>)
  /\ ScopesOf(seen[3]) = Some(<<"scope:lineitem", "scope:result">>)
  /\ ScopesOf(seen[4]) = Some(<<"scope:result">>)

\* Positions i at which togglePlacement(p) was applied twice in a row
\* (ops[i - 1], ops[i]) starting with p absent from the list.
AddThenRemove ==
  {i \in DoubleToggles :
     /\ ops[i].name = "togglePlacement"
     /\ ops[i].arg \notin Elems(PlacementsOf(seen[i - 1]))}

\* What C8 says of every togglePlacement: symmetric difference on the list, the
\* flag untouched; and of a placement toggled in and out: added, then removed.
PlacementToggleSemantics ==
  /\ \A i \in Applied("togglePlacement") :
       /\ Elems(PlacementsOf(seen[i + 1])) =
            (Elems(PlacementsOf(seen[i])) \ {ops[i].arg})
              \cup ({ops[i].arg} \ Elems(PlacementsOf(seen[i])))
       /\ seen[i + 1].placements.courseNavigationDefaultDisabled =
            seen[i].placements.courseNavigationDefaultDisabled
  /\ \A i \in AddThenRemove :
       /\ Cardinality({k \in 1..Len(ListOf(PlacementsOf(seen[i]))) :
                         ListOf(PlacementsOf(seen[i]))[k] = ops[i].arg}) = 1
       /\ ops[i].arg \notin Elems(PlacementsOf(seen[i + 1]))

\* C8 as stated: symmetric difference, and no duplicates in the list at any
\* point of an add-then-remove sequence.
C8_TogglePlacementNeverDuplicates ==
  /\ PlacementToggleSemantics
  /\ \A i \in AddThenRemove :
       \A k \in {i - 1, i, i + 1} : NoDuplicates(ListOf(PlacementsOf(seen[k])))

\* C8 (amended): togglePlacement(p) has symmetric-difference semantics on
\* placements.placements: toggling p when absent adds it (once), toggling again
\* removes it, and the list has no duplicates at any point of such a sequence
\* when it had none before the first toggle; courseNavigationDefaultDisabled
\* is left unchanged by togglePlacement.
C8_TogglePlacementAddsNoDuplicate ==
  /\ PlacementToggleSemantics
  /\ \A i \in AddThenRemove :
       NoDuplicates(ListOf(PlacementsOf(seen[i - 1]))) =>
         \A k \in {i, i + 1} : NoDuplicates(ListOf(PlacementsOf(seen[k])))

\* account_navigation is toggled in and out of a list that holds another
\* placement, the course-navigation flag being set.
C8_Witness ==
  /\ Steps = 3
  /\ 3 \in AddThenRemove
  /\ ops[3].arg = "account_navigation"
  /\ NoDuplicates(ListOf(PlacementsOf(seen[2])))
  /\ Len(ListOf(PlacementsOf(seen[3]))) >= 2
  /\ seen[4].placements.courseNavigationDefaultDisabled

\* The positions of list l whose entry is not x, and the k-th of them.
KeptPositions(l, x) == {p \in 1..Len(l) : l[p] # x}

KthKept(l, x, k) ==
  CHOOSE p \in KeptPositions(l, x) :
    Cardinality({q \in KeptPositions(l, x) : q < p}) = k - 1

\* C9: after toggleScope or togglePlacement the order of the list is
\* insertion-order-preserving on add (the new entry comes after all existing
\* entries, whose order is unchanged) and stable on remove (the remaining
\* entries keep their relative order).
C9_ToggleKeepsOrder ==
  \A i \in Applied("toggleScope") \cup Applied("togglePlacement") :
    LET x == ops[i].arg
        before == ListOf(ToggledList(seen[i], ops[i]))
        after == ListOf(ToggledList(seen[i + 1], ops[i]))
    IN IF x \notin Range(before)
       THEN /\ Len(after) = Len(before) + 1
            /\ after[Len(after)] = x
            /\ \A k \in 1..Len(before) : after[k] = before[k]
       ELSE /\ Len(after) = Cardinality(KeptPositions(before, x))
            /\ \A k \in 1..Len(after) : after[k] = before[KthKept(before, x, k)]

\* An entry was removed from between two others, and one added after two others.
C9_Witness ==
  /\ Steps = 2
  /\ ops[1] = [name |-> "togglePlacement", arg |-> "course_navigation"]
  /\ ops[2] = [name |-> "togglePlacement", arg |-> "course_navigation"]
  /\ PlacementsOf(seen[1]) =
       Some(<<"account_navigation", "course_navigation", "account_navigation">>)
  /\ PlacementsOf(seen[2]) = Some(<<"account_navigation", "account_navigation">>)
  /\ PlacementsOf(seen[3]) =
       Some(<<"account_navigation", "account_navigation", "course_navigation">>)

\* C10 as stated: the initial JwkMethod is 'public_jwk_url' whenever the base
\* document has a public-key URL present, and 'public_jwk' otherwise.
C10_JwkMethodByUrlWhenUrlPresent ==
  pc = "ready" =>
    seen[1].launchSettings.JwkMethod =
      Some(IF IsPresent(internalConfig.public_jwk_url) THEN "public_jwk_url" ELSE "public_jwk")

\* C10 (amended): the initializer sets launchSettings.JwkMethod to
\* 'public_jwk_url' whenever the base document's public-key URL is present and
\* not the empty string, whether or not a literal key is present too, and to
\* 'public_jwk' otherwise (URL absent or empty).
C10_JwkMethodByUrlWhenUrlNonEmpty ==
  pc = "ready" =>
    /\ (internalConfig.public_jwk_url \notin {undefined, Some("")}) =>
         seen[1].launchSettings.JwkMethod = Some("public_jwk_url")
    /\ (internalConfig.public_jwk_url \in {undefined, Some("")}) =>
         seen[1].launchSettings.JwkMethod = Some("public_jwk")

\* A document with both a key URL and a literal key has been initialized.
C10_Witness ==
  /\ pc = "ready"
  /\ internalConfig.public_jwk_url = Some("https://tool.test/jwks")
  /\ IsPresent(internalConfig.public_jwk)
  /\ Content(heap, store).launchSettings.JwkMethod = Some("public_jwk_url")
  /\ Content(heap, store).launchSettings.Jwk = Some("{\"kty\":\"RSA\",\"kid\":\"1\"}")

\* The launch settings of the first snapshot.
InitialLaunchSettings == seen[1].launchSettings

\* C11 as stated: the initial redirectURIs is the base document's redirect URIs
\* joined with newlines (no trailing newline) when the list is non-empty, and
\* unset when the list is absent or empty.
C11_RedirectURIsUnsetWhenAbsentOrEmpty ==
  pc = "ready" =>
    LET uris == internalConfig.redirect_uris IN
    IF ~IsPresent(uris) \/ Get(uris) = <<>> THEN InitialLaunchSettings.redirectURIs = undefined
    ELSE InitialLaunchSettings.redirectURIs =
           Some(IF Len(Get(uris)) = 1 THEN Get(uris)[1]
                ELSE IF Len(Get(uris)) = 2 THEN Get(uris)[1] \o "\n" \o Get(uris)[2]
                ELSE Get(uris)[1] \o "\n" \o Get(uris)[2] \o "\n" \o Get(uris)[3])

\* C11 (amended): the initial redirectURIs is the base document's redirect URIs
\* joined with newlines (no trailing newline) when the list is non-empty, the
\* empty string when the list is empty, and unset only when the list is absent.
C11_RedirectURIsJoinedUnsetWhenAbsent ==
  pc = "ready" =>
    LET uris == internalConfig.redirect_uris IN
    IF ~IsPresent(uris) THEN InitialLaunchSettings.redirectURIs = undefined
    ELSE InitialLaunchSettings.redirectURIs =
           Some(IF Len(Get(uris)) = 0 THEN ""
                ELSE IF Len(Get(uris)) = 1 THEN Get(uris)[1]
                ELSE IF Len(Get(uris)) = 2 THEN Get(uris)[1] \o "\n" \o Get(uris)[2]
                ELSE Get(uris)[1] \o "\n" \o Get(uris)[2] \o "\n" \o Get(uris)[3])

\* The two-URI document of the specification's example has been initialized.
C11_Witness ==
  /\ pc = "ready"
  /\ internalConfig.redirect_uris = Some(<<"https://tool.test/a", "https://tool.test/b">>)
  /\ Content(heap, store).launchSettings.redirectURIs =
       Some("https://tool.test/a\nhttps://tool.test/b")

\* C12: the initial customFields is key=value followed by a newline for every
\* entry of the custom-fields mapping, in the mapping's iteration order (the
\* last entry is terminated too); it is unset when the document has no mapping.
C12_CustomFieldsSerialized ==
  pc = "ready" =>
    LET fields == internalConfig.custom_fields
        line(k) == Get(fields)[k][1] \o "=" \o Get(fields)[k][2] \o "\n"
    IN IF ~IsPresent(fields) THEN InitialLaunchSettings.customFields = undefined
       ELSE InitialLaunchSettings.customFields =
              Some(IF Len(Get(fields)) = 0 THEN ""
                   ELSE IF Len(Get(fields)) = 1 THEN line(1)
                   ELSE line(1) \o line(2))

\* The mapping {b: 2, a: 1} has been serialized in its own order.
C12_Witness ==
  /\ pc = "ready"
  /\ internalConfig.custom_fields = Some(<<<<"b", "2">>, <<"a", "1">>>>)
  /\ Content(heap, store).launchSettings.customFields = Some("b=2\na=1\n")

\* The placement records of the base document, and the positions of the
\* first and of the last record of a kind.
Records == internalConfig.placements

RecordKinds == {Records[k].placement : k \in 1..Len(Records)}

FirstRecord(kind) ==
  CHOOSE k \in 1..Len(Records) :
    Records[k].placement = kind /\ \A j \in 1..(k - 1) : Records[j].placement # kind

LastRecord(kind) ==
  CHOOSE k \in 1..Len(Records) :
    Records[k].placement = kind /\ \A j \in (k + 1)..Len(Records) : Records[j].placement # kind

\* C13 as stated: the initial courseNavigationDefaultDisabled is true if and
\* only if the document holds a course_navigation record whose default is
\* 'disabled'.
C13_FlagIffSomeRecordDisabled ==
  pc = "ready" =>
    seen[1].placements.courseNavigationDefaultDisabled =
      (\E k \in 1..Len(Records) :
         Records[k].placement = "course_navigation" /\ Records[k].default = Some("disabled"))

\* C13 (amended): the initial courseNavigationDefaultDisabled is true if and
\* only if the document holds a course_navigation record and the first such
\* record has default 'disabled'; it is false when there is no such record or
\* when the first one has no default or another default.
C13_FlagIffFirstRecordDisabled ==
  pc = "ready" =>
    seen[1].placements.courseNavigationDefaultDisabled =
      ( /\ "course_navigation" \in RecordKinds
        /\ Records[FirstRecord("course_navigation")].default = Some("disabled") )

\* A document whose course_navigation record has default 'disabled' has been
\* initialized, and the flag is set.
C13_Witness ==
  /\ pc = "ready"
  /\ Records = <<DisabledPlacement("course_navigation"), PlainPlacement("global_navigation"),
                 PlainPlacement("account_navigation")>>
  /\ Content(heap, store).placements.courseNavigationDefaultDisabled

\* What the initializer is documented to derive from a placement record.
ExpectedOverride(rec) ==
  [message_type |->
     IF rec.message_type = undefined THEN Some("LtiResourceLinkRequest") ELSE rec.message_type,
   uri |-> IF rec.url = undefined THEN Some(internalConfig.target_link_uri) ELSE rec.url]

ExpectedName(rec) ==
  [name |-> IF rec.text = undefined THEN Some(internalConfig.title) ELSE rec.text]

\* C14 as stated: for every placement record, override_uris.placements[kind]
\* holds the record's message type (default 'LtiResourceLinkRequest') and URL
\* (default the target link URI).
C14_OverrideForEveryRecord ==
  pc = "ready" =>
    \A k \in 1..Len(Records) :
      /\ Records[k].placement \in DOMAIN seen[1].override_uris.placements
      /\ seen[1].override_uris.placements[Records[k].placement] = ExpectedOverride(Records[k])

\* C14 (amended): override_uris.placements has one entry per placement kind of
\* the document's records, and the entry of a kind holds the message type
\* (default 'LtiResourceLinkRequest') and URL (default the target link URI)
\* of the last record of that kind.
C14_OverrideFromLastRecordOfKind ==
  pc = "ready" =>
    /\ DOMAIN seen[1].override_uris.placements = RecordKinds
    /\ \A kind \in RecordKinds :
         seen[1].override_uris.placements[kind] = ExpectedOverride(Records[LastRecord(kind)])

\* Records with and without message type and URL have been initialized.
C14_Witness ==
  /\ pc = "ready"
  /\ Records = <<DisabledPlacement("course_navigation"), PlainPlacement("global_navigation"),
                 PlainPlacement("account_navigation")>>
  /\ Content(heap, store).override_uris.placements["global_navigation"] =
       [message_type |-> Some("LtiResourceLinkRequest"), uri |-> Some("https://tool.test/launch")]
  /\ Content(heap, store).override_uris.placements["course_navigation"] =
       [message_type |-> Some("LtiDeepLinkingRequest"), uri |-> Some("https://tool.test/nav")]

\* C15 as stated: for every placement record, naming.placements[kind].name is
\* the record's text (default the document's title); naming.description and
\* naming.notes start as empty strings.
C15_NameForEveryRecord ==
  pc = "ready" =>
    /\ \A k \in 1..Len(Records) :
         /\ Records[k].placement \in DOMAIN seen[1].naming.placements
         /\ seen[1].naming.placements[Records[k].placement] = ExpectedName(Records[k])
    /\ seen[1].naming.description = Some("")
    /\ seen[1].naming.notes = Some("")

\* C15 (amended): naming.placements has one entry per placement kind of the
\* document's records, and the name of a kind is the text (default the
\* document's title) of the last record of that kind; naming.description and
\* naming.notes start as empty strings.
C15_NameFromLastRecordOfKind ==
  pc = "ready" =>
    /\ DOMAIN seen[1].naming.placements = RecordKinds
    /\ \A kind \in RecordKinds :
         seen[1].naming.placements[kind] = ExpectedName(Records[LastRecord(kind)])
    /\ seen[1].naming.description = Some("")
    /\ seen[1].naming.notes = Some("")

\* Records with and without text have been initialized.
C15_Witness ==
  /\ pc = "ready"
  /\ Records = <<DisabledPlacement("course_navigation"), PlainPlacement("global_navigation"),
                 PlainPlacement("account_navigation")>>
  /\ Content(heap, store).naming.placements["course_navigation"].name = Some("Navigation")
  /\ Content(heap, store).naming.placements["account_navigation"].name = Some("Tool")
  /\ Content(heap, store).naming.description = Some("")

\* The launchSettings field each setter is documented to replace.
FieldOf(name) ==
  IF name = "setRedirectURIs" THEN "redirectURIs"
  ELSE IF name = "setDefaultTargetLinkURI" THEN "targetLinkURI"
  ELSE IF name = "setOIDCInitiationURI" THEN "openIDConnectInitiationURL"
  ELSE IF name = "setJwkMethod" THEN "JwkMethod"
  ELSE IF name = "setJwkURL" THEN "JwkURL"
  ELSE IF name = "setJwk" THEN "Jwk"
  ELSE IF name = "setDomain" THEN "domain"
  ELSE "customFields"

\* C16: each of the eight launch-setting setters replaces its designated
\* launchSettings field with the given value and leaves the other seven
\* fields unchanged; setJwkMethod alters neither JwkURL nor Jwk.
C16_SetterReplacesOnlyItsField ==
  \A i \in 1..Steps :
    ops[i].name \in LaunchSetters =>
      /\ seen[i + 1].launchSettings[FieldOf(ops[i].name)] = Some(ops[i].arg)
      /\ \A key \in LaunchSettingKeys \ {FieldOf(ops[i].name)} :
           seen[i + 1].launchSettings[key] = seen[i].launchSettings[key]

\* The method was switched to the literal key while a key URL is set, and
\* two other setters have acted.
C16_Witness ==
  /\ Steps = 3
  /\ ops[1] = [name |-> "setJwkMethod", arg |-> "public_jwk"]
  /\ ops[2].name = "setRedirectURIs"
  /\ ops[3].name = "setJwk"
  /\ seen[1].launchSettings.JwkMethod = Some("public_jwk_url")
  /\ Content(heap, store).launchSettings.JwkMethod = Some("public_jwk")
  /\ Content(heap, store).launchSettings.JwkURL = Some("https://tool.test/jwks")
  /\ Content(heap, store).launchSettings.Jwk = Some("edited")

\* C17: toggleCourseNavigationDefaultDisabled flips
\* placements.courseNavigationDefaultDisabled and leaves placements.placements
\* unchanged.
C17_FlagFlippedListKept ==
  \A i \in Applied("toggleCourseNavigationDefaultDisabled") :
    /\ seen[i + 1].placements.courseNavigationDefaultDisabled =
         ~seen[i].placements.courseNavigationDefaultDisabled
    /\ PlacementsOf(seen[i + 1]) = PlacementsOf(seen[i])

\* The flag went from true to false and back to true over a non-empty list.
C17_Witness ==
  /\ Steps = 2
  /\ Applied("toggleCourseNavigationDefaultDisabled") = {1, 2}
  /\ seen[1].placements.courseNavigationDefaultDisabled
  /\ ~seen[2].placements.courseNavigationDefaultDisabled
  /\ Content(heap, store).placements.courseNavigationDefaultDisabled
  /\ Len(ListOf(PlacementsOf(Content(heap, store)))) = 3

\* C20: in every state reachable from any base document by any sequence of
\* mutator actions, launchSettings.JwkMethod is 'public_jwk_url' or
\* 'public_jwk', never absent and never another value.
C20_JwkMethodEnumerated ==
  pc = "ready" =>
    /\ Content(heap, store).launchSettings.JwkMethod \in
         {Some("public_jwk_url"), Some("public_jwk")}
    /\ \A i \in 1..Len(seen) :
         seen[i].launchSettings.JwkMethod \in {Some("public_jwk_url"), Some("public_jwk")}

\* From a document without key URL the method was switched to the URL, the
\* URL set, and the method switched back.
C20_Witness ==
  /\ Steps = 3
  /\ internalConfig.public_jwk_url = undefined
  /\ seen[1].launchSettings.JwkMethod = Some("public_jwk")
  /\ ops[1] = [name |-> "setJwkMethod", arg |-> "public_jwk_url"]
  /\ ops[2].name = "setJwkURL"
  /\ ops[3] = [name |-> "setJwkMethod", arg |-> "public_jwk"]
  /\ Content(heap, store).launchSettings.JwkMethod = Some("public_jwk")


----------------------------------------------------------------------------
\* Some mutator raises on the snapshot at st for some argument of its type.
SomeMutatorThrows(h, st) ==
  \/ \E v \in SetterValues :
       \/ setRedirectURIs(h, st, v).threw
       \/ setDefaultTargetLinkURI(h, st, v).threw
       \/ setOIDCInitiationURI(h, st, v).threw
       \/ setJwkURL(h, st, v).threw
       \/ setJwk(h, st, v).threw
       \/ setDomain(h, st, v).threw
       \/ setCustomFields(h, st, v).threw
  \/ \E m \in JwkMethods : setJwkMethod(h, st, m).threw
  \/ \E scope \in LtiScopes : toggleScope(h, st, scope).threw
  \/ \E level \in LtiPrivacyLevels : setPrivacyLevel(h, st, level).threw
  \/ toggleCourseNavigationDefaultDisabled(h, st).threw
  \/ \E placement \in LtiPlacements : togglePlacement(h, st, placement).threw

\* The heap with one more snapshot, equal to the one at st except that its
\* scope list and its placement list are both absent.
WithoutLists(h, st) ==
  LET h1 == Append(h, [h[h[st].permissions] EXCEPT !.scopes = Null])
      h2 == Append(h1, [h[h[st].placements] EXCEPT !.placements = Null])
  IN Append(h2, [h[st] EXCEPT !.permissions = Len(h1), !.placements = Len(h2)])

\* C19: no operation raises.  The store is never in the error state; the
\* initializer completes on the base document; and on every snapshot the
\* store holds, and on the same snapshot with its scope list and placement
\* list absent, every mutator completes for every argument of its type.
C19_OperationsTotal ==
  /\ pc # "error"
  /\ pc = "new" =>
       ~initialOverlayStateFromInternalConfig(
          heap, internalConfig, ConfigScopesRef(internalConfig)).threw
  /\ pc = "ready" =>
       /\ ~SomeMutatorThrows(heap, store)
       /\ LET h == WithoutLists(heap, store) IN ~SomeMutatorThrows(h, Len(h))

\* C19 witness: a session on a base document without redirect URIs, custom
\* fields and scopes and with an empty placement list, whose three steps
\* toggled a scope and a placement on and the scope off again.
C19_Witness ==
  /\ pc = "ready"
  /\ internalConfig.redirect_uris = undefined
  /\ internalConfig.custom_fields = undefined
  /\ internalConfig.scopes = undefined
  /\ internalConfig.placements = <<>>
  /\ Len(ops) = 3
  /\ ops[1].name = "toggleScope"
  /\ ops[2].name = "togglePlacement"
  /\ ops[3] = ops[1]
  /\ heap[heap[store].permissions].scopes # Null
  /\ heap[heap[heap[store].permissions].scopes] = <<>>


----------------------------------------------------------------------------
\* C21: in every snapshot the store has held, override_uris.placements,
\* naming.placements and icons.placements have the same keys, the placement
\* kinds of the base document's records, whatever the placement list holds.
C21_PerPlacementMapsKeyedByRecordKinds ==
  \A i \in 1..Len(seen) :
    /\ DOMAIN seen[i].override_uris.placements = RecordKinds
    /\ DOMAIN seen[i].naming.placements = RecordKinds
    /\ DOMAIN seen[i].icons.placements = RecordKinds

\* C21 witness: two placements of the base document were toggled out of the
\* placement list, which is left with global_navigation alone, while the three
\* maps still have an entry for each of the three kinds.
C21_Witness ==
  /\ Steps = 2
  /\ Applied("togglePlacement") = {1, 2}
  /\ PlacementsOf(seen[3]) = Some(<<"global_navigation">>)
  /\ RecordKinds = LtiPlacements
  /\ DOMAIN seen[3].icons.placements = LtiPlacements


----------------------------------------------------------------------------
\* How often the page has done x, and the position of its first x.
Times(x) == Cardinality({i \in 1..Len(page.did) : page.did[i] = x})

\* The flag is on and REMOTES carries a speedgrader URL (a non-empty string).
FlagOnAndUrlGiven ==
  /\ page.window.PLATFORM_SERVICE_SPEEDGRADER_ENABLED = Some(TRUE)
  /\ page.window.REMOTES # undefined
  /\ Get(page.window.REMOTES).speedgrader \notin {undefined, Some("")}

PlatformPathTaken == Times("import") > 0 \/ Times("module.render") > 0

LegacyPathTaken == Times("spinner") > 0 \/ Times("speedGrader.setup") > 0

\* C22: once the ready callback has run, the platform module is imported (and
\* later rendered) exactly when the flag is on and the speedgrader URL is
\* given; in every other case the legacy path ran whole: spinner rendered, then
\* speedGrader.setup() called, once each.  Never both paths, and nothing
\* before the callback.
C22_ExactlyOnePath ==
  /\ page.pc = "loading" => page.did = <<>>
  /\ page.pc \notin {"loading", "none"} =>
       /\ PlatformPathTaken <=> FlagOnAndUrlGiven
       /\ LegacyPathTaken <=> ~FlagOnAndUrlGiven
       /\ ~FlagOnAndUrlGiven =>
            page.did = <<"touch_punch", "spinner", "speedGrader.setup">>
       /\ FlagOnAndUrlGiven => page.did[1] = "import" /\ Times("import") = 1
  /\ ~(PlatformPathTaken /\ LegacyPathTaken)

\* C22 witness: the flag on and the URL given, the platform module imported
\* and rendered with the query string's assignment.
C22_Witness ==
  /\ page.pc = "done"
  /\ page.did = <<"import", "module.render">>
  /\ page.rendered # undefined
  /\ Get(page.rendered).assignmentId = Some("7")

\* C23: on the platform path speedGrader.setup() is never called; the error
\* page is rendered only after a failure, and after the failure was reported;
\* and once the catch handler has run, the failure of the import or of the
\* render has been reported once and the error page rendered once.
C23_FailureReportedNoFallback ==
  /\ PlatformPathTaken => Times("speedGrader.setup") = 0 /\ Times("spinner") = 0
  /\ Times("GenericErrorPage") > 0 =>
       /\ page.error # undefined
       /\ \E i, j \in 1..Len(page.did) :
            i < j /\ page.did[i] = "captureException" /\ page.did[j] = "GenericErrorPage"
  /\ page.error = undefined => Times("captureException") = 0
  /\ (page.pc = "done" /\ page.error # undefined) =>
       Times("captureException") = 1 /\ Times("GenericErrorPage") = 1

\* C23 witness: the module was imported, its render threw, and the catch
\* handler has run.
C23_Witness ==
  /\ page.pc = "done"
  /\ page.error = Some("render")
  /\ page.did = <<"import", "module.render", "console.error", "captureException",
                  "GenericErrorPage">>


----------------------------------------------------------------------------
\* Positions of the list whose criterion carries the learning outcome id x.
WithOutcome(criteria, x) ==
  {i \in 1..Len(criteria) : criteria[i].learningOutcomeId = Some(x)}

\* No two criteria of the list share a defined learning outcome id.
OutcomesDistinct(criteria) ==
  \A i, j \in 1..Len(criteria) :
    (i # j /\ criteria[i].learningOutcomeId # undefined) =>
      criteria[i].learningOutcomeId # criteria[j].learningOutcomeId

\* The last event was the import of an outcome the rubric already had.
ImportedExistingOutcome ==
  /\ form.last.name = "import"
  /\ WithOutcome(form.before.rubricForm.criteria, Get(form.last.arg.learningOutcomeId)) # {}

\* C24: the import of an outcome whose learningOutcomeId an existing criterion
\* carries leaves criteria and pointsPossible as they were and shows an error;
\* and no two criteria of the form share a defined learningOutcomeId, whatever
\* imports, criterion saves, duplications, deletions and reorders were done.
C24_OutcomeAddedOnce ==
  form.pc = "open" =>
    /\ ImportedExistingOutcome =>
         /\ form.rubricForm.criteria = form.before.rubricForm.criteria
         /\ form.rubricForm.pointsPossible = form.before.rubricForm.pointsPossible
         /\ form.flashErrors = form.before.flashErrors + 1
    /\ OutcomesDistinct(form.rubricForm.criteria)

\* C24 witness: after a second outcome was imported into the loaded rubric,
\* the import of the outcome the rubric was loaded with is refused.
C24_Witness ==
  /\ form.pc = "open"
  /\ ImportedExistingOutcome
  /\ form.last.arg.learningOutcomeId = Some("outcome-1")
  /\ WithOutcome(form.rubricForm.criteria, "outcome-2") # {}
  /\ Len(form.rubricForm.criteria) = 3
  /\ form.flashErrors = 1


----------------------------------------------------------------------------
\* The points of the first n criteria that count for scoring, added up.
RECURSIVE ScoredPoints(_, _)
ScoredPoints(criteria, n) ==
  IF n = 0 THEN 0
  ELSE ScoredPoints(criteria, n - 1)
         + (IF criteria[n].ignoreForScoring = FALSE THEN criteria[n].points ELSE 0)

\* C25: pointsPossible is the sum of points over the criteria whose
\* ignoreForScoring is false, in every form reached by deleteCriterion,
\* handleSaveCriterion, outcome imports and reorders from a form where it is.
C25_PointsPossibleIsScoredSum ==
  form.pc = "open" =>
    form.rubricForm.pointsPossible =
      ScoredPoints(form.rubricForm.criteria, Len(form.rubricForm.criteria))

\* C25 witness: three criteria, one of them not scored, were moved by a drag
\* after an outcome worth 3 points was imported for scoring, the total being
\* 4 + 3.
C25_Witness ==
  /\ form.pc = "open"
  /\ form.last.name = "handleDragEnd"
  /\ form.rubricForm.criteria # form.before.rubricForm.criteria
  /\ Len(form.rubricForm.criteria) = 3
  /\ \E i \in 1..3 : form.rubricForm.criteria[i].ignoreForScoring
  /\ \E i \in 1..3 :
       /\ form.rubricForm.criteria[i].learningOutcomeId = Some("outcome-2")
       /\ form.rubricForm.criteria[i].points = 3
       /\ ~form.rubricForm.criteria[i].ignoreForScoring
  /\ form.rubricForm.pointsPossible = 7


----------------------------------------------------------------------------
\* The rubric handed to saveRubric by the last click on a save button.
LastSaved == form.saved[Len(form.saved)]

\* C26 as stated: the rubric a click on 'Save as Draft' hands to saveRubric
\* has workflowState 'draft' and the one a click on 'Save Rubric' hands over
\* has workflowState 'active', whatever the workflowState before the click.
C26_SavedWorkflowStateFollowsButton ==
  form.pc = "open" =>
    /\ form.last.name = "handleSaveAsDraft" => LastSaved.workflowState = "draft"
    /\ form.last.name = "handleSave" => LastSaved.workflowState = "active"


----------------------------------------------------------------------------
\* The title is empty or consists of blanks.
Blank(title) == \A i \in 1..Len(title) : title[i] = " "

SaveClicks == {"handleSaveAsDraft", "handleSave"}

\* C27: every rubric handed to saveRubric has a title that is not blank and
\* at least one criterion, and a click starts a save only from a form that is
\* valid and has no save in flight.
C27_SaveOnlyFromValidForm ==
  form.pc = "open" =>
    /\ \A i \in 1..Len(form.saved) :
         ~Blank(form.saved[i].title) /\ form.saved[i].criteria # <<>>
    /\ form.last.name \in SaveClicks =>
         /\ form.before.saveStatus # "loading"
         /\ ~Blank(form.before.rubricForm.title)
         /\ form.before.rubricForm.criteria # <<>>
         /\ form.saveStatus = "loading"
    /\ (form.saveStatus = "loading" /\ form.last.name \notin SaveClicks) =>
         form.before.saveStatus = "loading"

\* C27 witness: a second save, started by 'Save Rubric' after the first one
\* failed, from a form whose title ends in a blank.
C27_Witness ==
  /\ form.pc = "open"
  /\ form.last.name = "handleSave"
  /\ Len(form.saved) = 2
  /\ form.before.saveStatus = "error"
  /\ form.rubricForm.title = <<"R", " ">>


----------------------------------------------------------------------------
\* Positions of the list whose criterion has the id x.
WithId(criteria, x) == {i \in 1..Len(criteria) : criteria[i].id = x}

IdsUnique(criteria) ==
  \A i, j \in 1..Len(criteria) : criteria[i].id = criteria[j].id => i = j

\* C28: after handleSaveCriterion(c), when the list had a criterion with c's
\* id, the list has the same length, c at the first such position and every
\* other position as before; when it had none, the list is the old one with c
\* appended; ids that were unique still are; and both criterion modals are
\* closed.
C28_SaveCriterionUpserts ==
  (form.pc = "open" /\ form.last.name = "handleSaveCriterion") =>
    LET c == form.last.arg
        old == form.before.rubricForm.criteria
        new == form.rubricForm.criteria
        at == WithId(old, c.id)
    IN /\ at # {} =>
            /\ Len(new) = Len(old)
            /\ \A i \in 1..Len(old) :
                 new[i] = IF i \in at /\ \A j \in at : i <= j THEN c ELSE old[i]
       /\ at = {} =>
            /\ Len(new) = Len(old) + 1
            /\ new[Len(new)] = c
            /\ \A i \in 1..Len(old) : new[i] = old[i]
       /\ IdsUnique(old) => IdsUnique(new)
       /\ ~form.isCriterionModalOpen
       /\ ~form.isOutcomeCriterionModalOpen

\* C28 witness: the first of two criteria was edited from 4 points to 3 and
\* saved; the second is where and what it was.
C28_Witness ==
  /\ form.pc = "open"
  /\ form.last.name = "handleSaveCriterion"
  /\ form.last.arg.id = 101
  /\ form.before.rubricForm.criteria[1].points = 4
  /\ form.rubricForm.criteria[1] = form.last.arg
  /\ form.rubricForm.criteria[1].points = 3
  /\ Len(form.rubricForm.criteria) = 2
  /\ form.rubricForm.criteria[2] = form.before.rubricForm.criteria[2]

====
